---- MODULE Spec2Model ----
(***************************************************************************)
(* Model of the research-paper assistant: the chunker and vector store of  *)
(* rag.py, the reader -> analyst -> writer graph of run.py / nodes.py and  *)
(* the evaluation harness of evaluation/evaluate.py.                       *)
(***************************************************************************)
EXTENDS Integers, Sequences, FiniteSets, TLC

\* ------------------------------------------------------------------ bounds
MaxLen == 5        \* longest text handed to chunk_text
MaxSize == 3       \* largest chunk_size / overlap handed to chunk_text

\* the loop of chunk_text is followed for at most this many appended chunks
MaxChunks == MaxLen + 2

Chars == {"a", "b"}

RECURSIVE SeqsUpTo(_, _)
SeqsUpTo(S, n) ==
    IF n = 0 THEN {<<>>}
    ELSE LET shorter == SeqsUpTo(S, n - 1)
         IN  shorter \cup {Append(s, c) : s \in {t \in shorter : Len(t) = n - 1}, c \in S}

Texts == SeqsUpTo(Chars, MaxLen)
Sizes == 1..MaxSize
Overlaps == (0 - 1)..MaxSize

VARIABLES
    c_pc,        \* chunk_text: "idle", "loop" (at the while test), "returned"
    c_text,      \* chunk_text: parameter text
    c_size,      \* chunk_text: parameter chunk_size
    c_overlap,   \* chunk_text: parameter overlap
    c_start,     \* chunk_text: local start
    c_chunks,    \* chunk_text: local chunks
    m_pc,        \* main of run.py: where the run is
    paper_texts, \* main: the mapping load_paper_texts returned
    state,       \* the PipelineState the compiled graph threads through the nodes
    node,        \* the graph node to run next ("none" outside app.invoke)
    executed,    \* node names in the order the nodes were entered
    completed,   \* node names in the order their updates were merged
    gen_calls,   \* chat-completion requests issued by the nodes, in order
    output_file, \* output/summary.md: NoFile or its text
    wrote,       \* main wrote output/summary.md in this run
    e_pc,        \* run_evaluation: where the run is
    e_summary,   \* run_evaluation: the summary read, a sequence of lines
    e_results,   \* run_evaluation: metric name -> result, for the checks done
    e_failed,    \* run_evaluation: the check whose call raised, if any
    e_report,    \* evaluation_results.json: NoReport or the record written
    q_pc,        \* qa_loop: where the session is
    q_papers,    \* qa_loop: the paper_texts handed to build_vector_store
    collection,  \* the ChromaDB collection: the records added, in order
    embed_calls, \* embeddings.create requests issued, in order (their inputs)
    q_asked,     \* questions put to retrieve so far
    q_answer     \* how the last retrieve call ended

chunkVars == <<c_pc, c_text, c_size, c_overlap, c_start, c_chunks>>
pipeVars == <<m_pc, paper_texts, state, node, executed, completed, gen_calls,
              output_file, wrote>>
evalVars == <<e_pc, e_summary, e_results, e_failed, e_report>>
ragVars == <<q_pc, q_papers, collection, embed_calls, q_asked, q_answer>>
vars == <<chunkVars, pipeVars, evalVars, ragVars>>

\* ----------------------------------------------------------- Python slices
\* A slice bound as Python resolves it: a negative bound counts from the end,
\* and the result is clamped to 0..len.
SliceBound(i, len) ==
    LET j == IF i < 0 THEN i + len ELSE i
    IN  IF j < 0 THEN 0 ELSE IF j > len THEN len ELSE j

\* text[start:end]
Slice(text, start, end) ==
    LET lo == SliceBound(start, Len(text))
        hi == SliceBound(end, Len(text))
    IN  IF hi <= lo THEN <<>> ELSE SubSeq(text, lo + 1, hi)

\* ------------------------------------------------------------- chunk_text
\* the while test of chunk_text
ChunkLoopTest(text, start) == start < Len(text)

\* the start of the next window: start = end - overlap, end = start + chunk_size
ChunkNextStartNoOverlap(start, chunk_size, overlap) == start + chunk_size
ChunkNextStart(start, chunk_size, overlap) == (start + chunk_size) - overlap

ChunkIdle ==
    /\ c_pc = "idle"
    /\ c_text = <<>>
    /\ c_size = 0
    /\ c_overlap = 0
    /\ c_start = 0
    /\ c_chunks = <<>>

\* chunk_text is entered with any text and any (chunk_size, overlap)
ChunkCall ==
    /\ c_pc = "idle"
    /\ \E t \in Texts, s \in Sizes, o \in Overlaps :
          /\ c_text' = t
          /\ c_size' = s
          /\ c_overlap' = o
    /\ c_start' = 0
    /\ c_chunks' = <<>>
    /\ c_pc' = "loop"
    /\ UNCHANGED <<pipeVars, evalVars, ragVars>>

\* one iteration of the while loop
ChunkStep ==
    /\ c_pc = "loop"
    /\ ChunkLoopTest(c_text, c_start)
    /\ Len(c_chunks) < MaxChunks
    /\ c_chunks' = Append(c_chunks, Slice(c_text, c_start, c_start + c_size))
    /\ c_start' = ChunkNextStart(c_start, c_size, c_overlap)
    /\ UNCHANGED <<c_pc, c_text, c_size, c_overlap>>
    /\ UNCHANGED <<pipeVars, evalVars, ragVars>>

\* the loop test fails: return chunks
ChunkReturn ==
    /\ c_pc = "loop"
    /\ ~ChunkLoopTest(c_text, c_start)
    /\ c_pc' = "returned"
    /\ UNCHANGED <<c_text, c_size, c_overlap, c_start, c_chunks>>
    /\ UNCHANGED <<pipeVars, evalVars, ragVars>>

ChunkNext == ChunkCall \/ ChunkStep \/ ChunkReturn

\* ------------------------------------------------- pipeline: run.py, nodes.py
MaxSupersteps == 6   \* node executions followed inside one app.invoke

NoFile == [exists |-> FALSE, text |-> ""]
FileOf(text) == [exists |-> TRUE, text |-> text]

PdfNames == {"p1.pdf", "p2.pdf"}
\* a text one character longer than a chunk
LongText == [i \in 1..4001 |-> "a"]
PdfTexts == {<<>>, <<"b">>, <<"a", "b">>, LongText}

\* what load_paper_texts can return: a mapping from file name to text
PaperTextMaps == UNION {[names -> PdfTexts] : names \in SUBSET PdfNames}
NoPapers == CHOOSE m \in PaperTextMaps : DOMAIN m = {}

\* what one chat-completion call can do: raise, or answer with a message whose
\* content is None or a string (possibly the empty string)
Completions ==
    {[kind |-> "raise", content |-> ""], [kind |-> "none", content |-> ""]}
        \cup {[kind |-> "text", content |-> c] : c \in {"", "x", "y"}}

START == "__start__"
END == "__end__"
StageNodes == {"reader", "analyst", "writer"}

\* the edges build_graph adds
EdgesSwapped ==
    {<<START, "reader">>, <<"reader", "writer">>, <<"writer", "analyst">>,
     <<"analyst", END>>}
Edges ==
    {<<START, "reader">>, <<"reader", "analyst">>, <<"analyst", "writer">>,
     <<"writer", END>>}

\* the node an edge leads to
Successor(n) == CHOOSE m \in StageNodes \cup {END} : <<n, m>> \in Edges

\* the state main hands to app.invoke
InitialState(pt) ==
    [paper_texts |-> pt, extraction |-> "", analysis |-> "", summary |-> ""]

\* the field of the state each node's prompt is built from
PromptInput(n, st) ==
    CASE n = "reader" -> [paper_texts |-> st.paper_texts]
      [] n = "analyst" -> [extraction |-> st.extraction]
      [] n = "writer" -> [extraction |-> st.extraction, analysis |-> st.analysis]

\* the partial update each node returns
reader_node(st, content) == [extraction |-> content]
analyst_node(st, content) == [analysis |-> content]
writer_nodeClearing(st, content) == [summary |-> content, analysis |-> ""]
writer_node(st, content) == [summary |-> content]

NodeUpdate(n, st, content) ==
    CASE n = "reader" -> reader_node(st, content)
      [] n = "analyst" -> analyst_node(st, content)
      [] n = "writer" -> writer_node(st, content)

\* the graph runner merges a node's update: the keys it returned are
\* overwritten, the others kept
Merge(st, update) ==
    [k \in DOMAIN st |-> IF k \in DOMAIN update THEN update[k] ELSE st[k]]

\* the emptiness test of main on the loaded papers
NoPapersLoadedNever(pt) == FALSE
NoPapersLoaded(pt) == DOMAIN pt = {}

PipeIdle ==
    /\ m_pc = "idle"
    /\ paper_texts = NoPapers
    /\ state = InitialState(NoPapers)
    /\ node = "none"
    /\ executed = <<>>
    /\ completed = <<>>
    /\ gen_calls = <<>>
    /\ output_file = NoFile
    /\ wrote = FALSE

\* main without --qa starts; output/summary.md may be there from an earlier run
PipeInit ==
    /\ m_pc = "start"
    /\ paper_texts = NoPapers
    /\ state = InitialState(NoPapers)
    /\ node = "none"
    /\ executed = <<>>
    /\ completed = <<>>
    /\ gen_calls = <<>>
    /\ output_file \in {NoFile, FileOf("old")}
    /\ wrote = FALSE

\* paper_texts = load_paper_texts()
MainLoad ==
    /\ m_pc = "start"
    /\ paper_texts' \in PaperTextMaps
    /\ m_pc' = "loaded"
    /\ UNCHANGED <<state, node, executed, completed, gen_calls, output_file, wrote>>
    /\ UNCHANGED <<chunkVars, evalVars, ragVars>>

\* if not paper_texts: raise SystemExit(1)
MainNoPapers ==
    /\ m_pc = "loaded"
    /\ NoPapersLoaded(paper_texts)
    /\ m_pc' = "exit1"
    /\ UNCHANGED <<paper_texts, state, node, executed, completed, gen_calls,
                   output_file, wrote>>
    /\ UNCHANGED <<chunkVars, evalVars, ragVars>>

\* app = build_graph(); app.invoke({...}) enters the graph at START
MainInvoke ==
    /\ m_pc = "loaded"
    /\ ~NoPapersLoaded(paper_texts)
    /\ state' = InitialState(paper_texts)
    /\ node' = Successor(START)
    /\ m_pc' = "invoked"
    /\ UNCHANGED <<paper_texts, executed, completed, gen_calls, output_file, wrote>>
    /\ UNCHANGED <<chunkVars, evalVars, ragVars>>

\* the runner executes node n: the node issues its chat-completion call; a
\* raise, or a None content (len(None) raises TypeError), aborts app.invoke and
\* with it main; otherwise the update is merged and the edge out of n followed
RunNode(n) ==
    /\ m_pc = "invoked"
    /\ node = n
    /\ Len(executed) < MaxSupersteps
    /\ executed' = Append(executed, n)
    /\ gen_calls' = Append(gen_calls, [node |-> n, input |-> PromptInput(n, state)])
    /\ \E r \in Completions :
          IF r.kind = "text"
          THEN /\ state' = Merge(state, NodeUpdate(n, state, r.content))
               /\ completed' = Append(completed, n)
               /\ node' = Successor(n)
               /\ m_pc' = m_pc
          ELSE /\ m_pc' = "raised"
               /\ UNCHANGED <<state, completed, node>>
    /\ UNCHANGED <<paper_texts, output_file, wrote>>
    /\ UNCHANGED <<chunkVars, evalVars, ragVars>>

ReaderNode == RunNode("reader")
AnalystNode == RunNode("analyst")
WriterNode == RunNode("writer")

\* app.invoke returns at END; main writes result["summary"] to output/summary.md
MainSave ==
    /\ m_pc = "invoked"
    /\ node = END
    /\ output_file' = FileOf(state.summary)
    /\ wrote' = TRUE
    /\ m_pc' = "saved"
    /\ UNCHANGED <<paper_texts, state, node, executed, completed, gen_calls>>
    /\ UNCHANGED <<chunkVars, evalVars, ragVars>>

PipeNext ==
    \/ MainLoad
    \/ MainNoPapers
    \/ MainInvoke
    \/ ReaderNode
    \/ AnalystNode
    \/ WriterNode
    \/ MainSave

\* ------------------------------------------- evaluation: evaluation/evaluate.py
\* Scores are kept in hundredths: 83 stands for 0.83.  A score field is <<>>
\* for None and <<n>> for a number.

REQUIRED_SECTIONS ==
    <<"Paper Overview", "Problem Statement", "Methodology", "Key Findings",
      "Limitations & Future Work", "Key Takeaways">>

\* the lines a summary is made of: each required header as written or in
\* capitals, and a line of body text
Upper(line) ==
    CASE line = "Paper Overview" -> "PAPER OVERVIEW"
      [] line = "Problem Statement" -> "PROBLEM STATEMENT"
      [] line = "Methodology" -> "METHODOLOGY"
      [] line = "Key Findings" -> "KEY FINDINGS"
      [] line = "Limitations & Future Work" -> "LIMITATIONS & FUTURE WORK"
      [] line = "Key Takeaways" -> "KEY TAKEAWAYS"
      [] OTHER -> line

\* str.lower() on the lines above
Lower(line) ==
    CASE line \in {"Paper Overview", "PAPER OVERVIEW"} -> "paper overview"
      [] line \in {"Problem Statement", "PROBLEM STATEMENT"} -> "problem statement"
      [] line \in {"Methodology", "METHODOLOGY"} -> "methodology"
      [] line \in {"Key Findings", "KEY FINDINGS"} -> "key findings"
      [] line \in {"Limitations & Future Work", "LIMITATIONS & FUTURE WORK"}
            -> "limitations & future work"
      [] line \in {"Key Takeaways", "KEY TAKEAWAYS"} -> "key takeaways"
      [] OTHER -> line

\* section.lower() in summary.lower(), a summary being a sequence of lines
ContainsExact(section, summary) ==
    \E i \in 1..Len(summary) : summary[i] = section
ContainsLower(section, summary) ==
    \E i \in 1..Len(summary) : Lower(summary[i]) = Lower(section)

RECURSIVE SelectIdx(_, _)
\* the items of seq, in order, whose index is in keep
SelectIdx(seq, keep) ==
    IF seq = <<>> THEN <<>>
    ELSE LET n == Len(seq)
             front == SelectIdx(SubSeq(seq, 1, n - 1), keep)
         IN  IF n \in keep THEN Append(front, seq[n]) ELSE front

\* a summary: the headers in present, those in capitals written in capitals,
\* an optional line of body text, in list order or reversed
Reverse(seq) == [i \in 1..Len(seq) |-> seq[Len(seq) + 1 - i]]
SummaryOf(present, capitals, body, reversed) ==
    LET cased == [i \in 1..Len(REQUIRED_SECTIONS) |->
                     IF i \in capitals THEN Upper(REQUIRED_SECTIONS[i])
                     ELSE REQUIRED_SECTIONS[i]]
        lines == SelectIdx(cased, present) \o (IF body THEN <<"text">> ELSE <<>>)
    IN  IF reversed THEN Reverse(lines) ELSE lines

SectionIdx == 1..Len(REQUIRED_SECTIONS)
Summaries ==
    {SummaryOf(pr, cap, body, rev) :
        pr \in SUBSET SectionIdx, cap \in {{}, {1, 4}, SectionIdx},
        body \in BOOLEAN, rev \in BOOLEAN}

\* num / den rounded to an integer, for num >= 0 and den > 0: the nearest one;
\* a value half way between two integers goes to either, as the binary double
\* that stands for it lies to one side
RoundDiv(num, den) ==
    LET q == num \div den
        r == num % den
    IN  IF 2 * r < den THEN {q}
        ELSE IF 2 * r > den THEN {q + 1}
        ELSE {q, q + 1}

\* round(num / den, 2), in hundredths
Round2(num, den) == RoundDiv(100 * num, den)

RECURSIVE SumSeq(_)
SumSeq(seq) == IF seq = <<>> THEN 0 ELSE seq[1] + SumSeq(Tail(seq))

\* evaluate_coverage: len(found) / len(REQUIRED_SECTIONS) rounded to 2 places
evaluate_coverage(summary) ==
    LET foundIdx == {i \in SectionIdx : ContainsLower(REQUIRED_SECTIONS[i], summary)}
        found == SelectIdx(REQUIRED_SECTIONS, foundIdx)
        missing == SelectIdx(REQUIRED_SECTIONS, SectionIdx \ foundIdx)
        score == CHOOSE x \in Round2(Len(found), Len(REQUIRED_SECTIONS)) : TRUE
    IN  [metric |-> "coverage", score |-> <<score>>,
         found_sections |-> found, missing_sections |-> missing]

\* the judge's score, in hundredths of a point on the 1-5 scale
RawScores == {100, 300, 433, 500}

\* what a judge call can do: raise, answer with text that is not the JSON
\* object asked for, or answer with a score
JudgeReplies ==
    {[kind |-> "raise", raw |-> 0], [kind |-> "malformed", raw |-> 0]}
        \cup {[kind |-> "json", raw |-> r] : r \in RawScores}

\* evaluate_coherence on a well-formed reply: round(result["score"] / 5, 2)
evaluate_coherence(reply) ==
    [metric |-> "coherence",
     score |-> <<CHOOSE x \in RoundDiv(100 * reply.raw, 500) : TRUE>>,
     raw_score |-> reply.raw,
     reasoning |-> "reasoning"]

\* evaluate_grounding on a well-formed reply
evaluate_grounding(reply) ==
    [metric |-> "grounding",
     score |-> <<CHOOSE x \in RoundDiv(100 * reply.raw, 500) : TRUE>>]

\* the result run_evaluation records when there is no source text
GroundingSkipped == [metric |-> "grounding", score |-> <<>>, note |-> "No source text"]

\* the values round(overall, 2) can take: overall is the mean of the scores
\* that are not None, 0 when there is none
OverallScoreZeroFilled(coverage, coherence, grounding) ==
    LET fill(r) == IF r.score = <<>> THEN 0 ELSE r.score[1]
    IN  RoundDiv(fill(coverage) + fill(coherence) + fill(grounding), 3)
OverallScore(coverage, coherence, grounding) ==
    LET scores == coverage.score \o coherence.score \o grounding.score
    IN  IF scores = <<>> THEN {0} ELSE RoundDiv(SumSeq(scores), Len(scores))

NoReport == [exists |-> FALSE]
NoResults == [m \in {} |-> GroundingSkipped]

EvalIdle ==
    /\ e_pc = "idle"
    /\ e_summary = <<>>
    /\ e_results = NoResults
    /\ e_failed = "none"
    /\ e_report = NoReport

EvalInit ==
    /\ e_pc = "start"
    /\ e_summary = <<>>
    /\ e_results = NoResults
    /\ e_failed = "none"
    /\ e_report = NoReport

\* summary = summary_path.read_text(); an empty summary ends the run
EvalRead ==
    /\ e_pc = "start"
    /\ \E su \in Summaries :
          /\ e_summary' = su
          /\ e_pc' = IF su = <<>> THEN "exit1" ELSE "coverage"
    /\ UNCHANGED <<e_results, e_failed, e_report>>
    /\ UNCHANGED <<chunkVars, pipeVars, ragVars>>

\* 1. coverage
EvalCoverage ==
    /\ e_pc = "coverage"
    /\ e_results' = e_results @@ ("coverage" :> evaluate_coverage(e_summary))
    /\ e_pc' = "coherence"
    /\ UNCHANGED <<e_summary, e_failed, e_report>>
    /\ UNCHANGED <<chunkVars, pipeVars, ragVars>>

\* 2. coherence: the judge call raising, or json.loads / result["score"]
\* raising on its reply, leaves run_evaluation
EvalCoherence ==
    /\ e_pc = "coherence"
    /\ \E reply \in JudgeReplies :
          IF reply.kind = "json"
          THEN /\ e_results' = e_results @@ ("coherence" :> evaluate_coherence(reply))
               /\ e_pc' = "grounding"
               /\ UNCHANGED e_failed
          ELSE /\ e_failed' = "coherence"
               /\ e_pc' = "raised"
               /\ UNCHANGED e_results
    /\ UNCHANGED <<e_summary, e_report>>
    /\ UNCHANGED <<chunkVars, pipeVars, ragVars>>

\* 3. grounding: skipped when load_source_text gives no text, else as coherence
EvalGrounding ==
    /\ e_pc = "grounding"
    /\ \E source_text \in {"", "=== p1.pdf ==="} :
          IF source_text = ""
          THEN /\ e_results' = e_results @@ ("grounding" :> GroundingSkipped)
               /\ e_pc' = "aggregate"
               /\ UNCHANGED e_failed
          ELSE \E reply \in JudgeReplies :
                  IF reply.kind = "json"
                  THEN /\ e_results' =
                              e_results @@ ("grounding" :> evaluate_grounding(reply))
                       /\ e_pc' = "aggregate"
                       /\ UNCHANGED e_failed
                  ELSE /\ e_failed' = "grounding"
                       /\ e_pc' = "raised"
                       /\ UNCHANGED e_results
    /\ UNCHANGED <<e_summary, e_report>>
    /\ UNCHANGED <<chunkVars, pipeVars, ragVars>>

\* overall average, and the report written to evaluation_results.json
EvalReport ==
    /\ e_pc = "aggregate"
    /\ \E overall \in OverallScore(e_results["coverage"], e_results["coherence"],
                                   e_results["grounding"]) :
          e_report' = [exists |-> TRUE,
                       coverage |-> e_results["coverage"],
                       coherence |-> e_results["coherence"],
                       grounding |-> e_results["grounding"],
                       overall_score |-> overall]
    /\ e_pc' = "saved"
    /\ UNCHANGED <<e_summary, e_results, e_failed>>
    /\ UNCHANGED <<chunkVars, pipeVars, ragVars>>

EvalNext == EvalRead \/ EvalCoverage \/ EvalCoherence \/ EvalGrounding \/ EvalReport

\* ------------------------------------------------ vector store: rag.py, config.py
CHUNK_SIZE == 4000
CHUNK_OVERLAP == 200
TopK == 5            \* retrieve's default top_k
MaxQuestions == 2    \* questions followed in one Q&A session

\* chunk_text as a function: the chunks its loop appends from start on
RECURSIVE ChunkLoop(_, _, _, _)
ChunkLoop(text, chunk_size, overlap, start) ==
    IF ChunkLoopTest(text, start)
    THEN <<Slice(text, start, start + chunk_size)>>
             \o ChunkLoop(text, chunk_size, overlap,
                          ChunkNextStart(start, chunk_size, overlap))
    ELSE <<>>

chunk_text(text) == ChunkLoop(text, CHUNK_SIZE, CHUNK_OVERLAP, 0)

\* the names of a mapping in the order the dict holds them (sorted file names)
RECURSIVE SortedNames(_)
SortedNames(names) ==
    IF names = {} THEN <<>>
    ELSE LET first == IF "p1.pdf" \in names THEN "p1.pdf"
                      ELSE CHOOSE n \in names : TRUE
         IN  <<first>> \o SortedNames(names \ {first})

\* the chunks of one paper with their ids and metadata
PaperChunks(filename, text) ==
    LET chunks == chunk_text(text)
    IN  [i \in 1..Len(chunks) |->
            [id |-> <<filename, "_chunk_", i - 1>>,
             document |-> chunks[i],
             metadata |-> [source |-> filename, chunk_index |-> i - 1]]]

RECURSIVE AllChunksOf(_, _)
\* all_chunks / all_ids / all_metadata of build_vector_store, item by item
AllChunksOf(pt, names) ==
    IF names = <<>> THEN <<>>
    ELSE PaperChunks(names[1], pt[names[1]]) \o AllChunksOf(pt, Tail(names))

AllChunks(pt) == AllChunksOf(pt, SortedNames(DOMAIN pt))

\* the embedding the provider gives a text
Embedding(text) == [of |-> text]

\* the embeddings.create requests build_vector_store issues for its chunks:
\* one, with all the chunks as input
EmbedBatchesPerChunk(all_chunks) ==
    [i \in 1..Len(all_chunks) |-> <<all_chunks[i].document>>]
EmbedBatches(all_chunks) ==
    <<[i \in 1..Len(all_chunks) |-> all_chunks[i].document]>>

\* whether build_vector_store skips the embedding call
NoChunks(all_chunks) == all_chunks = <<>>

\* collection.query(n_results = k): the documents of k of the records (all of
\* them when there are fewer), in the order the index ranks them
QueryResults(coll, k) ==
    LET n == IF Len(coll) < k THEN Len(coll) ELSE k
    IN  {r \in [1..n -> {coll[i].document : i \in 1..Len(coll)}] :
            \E f \in [1..n -> 1..Len(coll)] :
               /\ \A i, j \in 1..n : i # j => f[i] # f[j]
               /\ \A i \in 1..n : r[i] = coll[f[i]].document}

Questions == {"q1", "q2"}
NoAnswer == [kind |-> "none", docs |-> <<>>]

RagIdle ==
    /\ q_pc = "idle"
    /\ q_papers = NoPapers
    /\ collection = <<>>
    /\ embed_calls = <<>>
    /\ q_asked = 0
    /\ q_answer = NoAnswer

RagInit ==
    /\ q_pc = "start"
    /\ q_papers = NoPapers
    /\ collection = <<>>
    /\ embed_calls = <<>>
    /\ q_asked = 0
    /\ q_answer = NoAnswer

\* collection = build_vector_store(paper_texts): one embeddings.create call for
\* all chunks, none when there is no chunk; the call raising ends qa_loop
BuildVectorStore ==
    /\ q_pc = "start"
    /\ \E pt \in PaperTextMaps :
          LET all == AllChunks(pt)
          IN  /\ q_papers' = pt
              /\ IF NoChunks(all)
                 THEN /\ collection' = <<>>
                      /\ q_pc' = "built"
                      /\ UNCHANGED embed_calls
                 ELSE /\ embed_calls' = embed_calls \o EmbedBatches(all)
                      /\ \/ /\ collection' =
                                 [i \in 1..Len(all) |->
                                     [id |-> all[i].id,
                                      document |-> all[i].document,
                                      embedding |-> Embedding(all[i].document),
                                      metadata |-> all[i].metadata]]
                            /\ q_pc' = "built"
                         \/ /\ q_pc' = "raised"
                            /\ UNCHANGED collection
    /\ UNCHANGED <<q_asked, q_answer>>
    /\ UNCHANGED <<chunkVars, pipeVars, evalVars>>

\* relevant_chunks = retrieve(collection, question): the question is embedded,
\* then the collection queried; the embedding call raising leaves retrieve and
\* qa_loop with the exception
Retrieve ==
    /\ q_pc = "built"
    /\ q_asked < MaxQuestions
    /\ q_asked' = q_asked + 1
    /\ \E question \in Questions :
          /\ embed_calls' = Append(embed_calls, <<question>>)
          /\ \/ /\ \E docs \in QueryResults(collection, TopK) :
                      q_answer' = [kind |-> "returned", docs |-> docs]
                /\ UNCHANGED q_pc
             \/ /\ q_answer' = [kind |-> "raised", docs |-> <<>>]
                /\ q_pc' = "raised"
    /\ UNCHANGED <<q_papers, collection>>
    /\ UNCHANGED <<chunkVars, pipeVars, evalVars>>

\* the user leaves the Q&A loop
QaQuit ==
    /\ q_pc = "built"
    /\ q_pc' = "done"
    /\ UNCHANGED <<q_papers, collection, embed_calls, q_asked, q_answer>>
    /\ UNCHANGED <<chunkVars, pipeVars, evalVars>>

RagNext == BuildVectorStore \/ Retrieve \/ QaQuit

\* ------------------------------------------------------------ specifications
InitChunk == ChunkIdle /\ PipeIdle /\ EvalIdle /\ RagIdle
SpecChunk == InitChunk /\ [][ChunkNext]_vars

InitPipeline == ChunkIdle /\ PipeInit /\ EvalIdle /\ RagIdle
SpecPipeline == InitPipeline /\ [][PipeNext]_vars

InitEval == ChunkIdle /\ PipeIdle /\ EvalInit /\ RagIdle
SpecEval == InitEval /\ [][EvalNext]_vars

InitRag == ChunkIdle /\ PipeIdle /\ EvalIdle /\ RagInit
SpecRag == InitRag /\ [][RagNext]_vars

\* ---------------------------------------------------- chunker properties
ValidConfig(chunk_size, overlap) == 0 <= overlap /\ overlap < chunk_size

\* ceil(a / b) for b > 0
CeilDiv(a, b) == 0 - ((0 - a) \div b)

\* the last n items of s / the first n items of s (all of s when it is shorter)
LastN(s, n) == IF Len(s) <= n THEN s ELSE SubSeq(s, Len(s) - n + 1, Len(s))
FirstN(s, n) == IF Len(s) <= n THEN s ELSE SubSeq(s, 1, n)
DropN(s, n) == IF Len(s) <= n THEN <<>> ELSE SubSeq(s, n + 1, Len(s))

\* the chunks joined in index order, each chunk after the first without the
\* overlap characters it repeats
RECURSIVE JoinResolved(_, _)
JoinResolved(chunks, overlap) ==
    IF chunks = <<>> THEN <<>>
    ELSE IF Len(chunks) = 1 THEN chunks[1]
    ELSE JoinResolved(SubSeq(chunks, 1, Len(chunks) - 1), overlap)
             \o DropN(chunks[Len(chunks)], overlap)

ChunkReturnedValid == c_pc = "returned" /\ ValidConfig(c_size, c_overlap)

\* C3: a non-empty text no longer than chunk_size, under a valid
\* configuration, comes back as exactly one chunk equal to the text.
C3_ShortTextOneChunk ==
    (ChunkReturnedValid /\ c_text # <<>> /\ Len(c_text) <= c_size)
        => c_chunks = <<c_text>>

C5_InvalidConfigNeverReturns ==
    (c_pc # "idle" /\ ~ValidConfig(c_size, c_overlap)) => c_pc # "returned"

\* C6: under a valid configuration the chunks in index order cover the text
\* and every pair of consecutive chunks, the last pair included, shares
\* exactly overlap characters: the tail of chunk i is the head of chunk i+1.
C6_CoverAndOverlap ==
    ChunkReturnedValid =>
        /\ JoinResolved(c_chunks, c_overlap) = c_text
        /\ \A i \in 1..(Len(c_chunks) - 1) :
              /\ Len(c_chunks[i]) >= c_overlap
              /\ Len(c_chunks[i + 1]) >= c_overlap
              /\ LastN(c_chunks[i], c_overlap) = FirstN(c_chunks[i + 1], c_overlap)

\* --------------------------------------------------- pipeline properties
StageOrder == <<"reader", "analyst", "writer">>

IsPrefix(s, t) == Len(s) <= Len(t) /\ \A i \in 1..Len(s) : s[i] = t[i]

\* the position of a node along Start -> Reading -> Analyzing -> Writing -> Done
Rank(n) ==
    CASE n = "none" -> 0
      [] n = "reader" -> 1
      [] n = "analyst" -> 2
      [] n = "writer" -> 3
      [] n = END -> 4

\* C1: in every run the stages execute in the order reader, analyst, writer:
\* each runs at most once, a stage is entered only when every stage entered
\* before it has merged its update, Done is reached only after all three, and
\* no step leads back to an earlier stage.
C1_StageOrder ==
    /\ [](/\ IsPrefix(executed, StageOrder)
          /\ IsPrefix(completed, executed)
          /\ (node = END => completed = StageOrder))
    /\ [][/\ Rank(node') >= Rank(node)
          /\ (executed' # executed =>
                 /\ completed = executed
                 /\ executed' = Append(executed, StageOrder[Len(executed) + 1]))]_vars

C1_Witness == node = END /\ executed = StageOrder /\ completed = StageOrder

\* C2: the analyst never issues its generation call on an empty extraction and
\* never writes an analysis for one.
C2_AnalystRequiresExtraction ==
    /\ \A i \in 1..Len(gen_calls) :
          gen_calls[i].node = "analyst" => gen_calls[i].input.extraction # ""
    /\ (\E i \in 1..Len(completed) : completed[i] = "analyst") => state.extraction # ""

\* C10: output/summary.md is written only by a run whose three stages all
\* completed; with no papers loaded the graph is never entered; a run that
\* exits on the empty-input check or on a failing stage writes no summary and
\* runs no stage after the failed one.
C10_SummaryOnlyAfterAllStages ==
    /\ wrote => (completed = StageOrder /\ output_file = FileOf(state.summary))
    /\ ~wrote => output_file \in {NoFile, FileOf("old")}
    /\ DOMAIN paper_texts = {} =>
          (node = "none" /\ executed = <<>> /\ gen_calls = <<>> /\ ~wrote)
    /\ m_pc \in {"exit1", "raised"} => ~wrote
    /\ m_pc = "raised" =>
          (executed = Append(completed, node) /\ Len(gen_calls) = Len(executed))

C10_Witness ==
    /\ m_pc = "raised"
    /\ completed = <<"reader", "analyst">>
    /\ executed = StageOrder
    /\ output_file = FileOf("old")

\* the field of the state each stage owns
OwnedField(n) ==
    CASE n = "reader" -> "extraction"
      [] n = "analyst" -> "analysis"
      [] n = "writer" -> "summary"

StateFields == {"paper_texts", "extraction", "analysis", "summary"}

\* C11: a stage that completes changes only the field it owns and leaves every
\* other field of the state as it was; nothing else changes the state once the
\* graph is entered, so the state main gets back holds the paper_texts it
\* handed in and the extraction and analysis as reader and analyst wrote them,
\* and a field whose stage has not completed is still empty.
C11_StageFrame ==
    /\ [](m_pc \in {"invoked", "raised", "saved"} =>
             /\ DOMAIN state = StateFields
             /\ state.paper_texts = paper_texts
             /\ \A n \in StageNodes :
                   (\A i \in 1..Len(completed) : completed[i] # n)
                       => state[OwnedField(n)] = "")
    /\ [][m_pc = "invoked" =>
             IF completed' # completed
             THEN \A k \in StateFields \ {OwnedField(node)} : state'[k] = state[k]
             ELSE state' = state]_vars

C11_Witness ==
    /\ m_pc = "saved"
    /\ DOMAIN state.paper_texts = PdfNames
    /\ state.extraction = "x"
    /\ state.analysis = "y"
    /\ state.summary = "x"

\* ------------------------------------------------- evaluation properties
Checks == {"coverage", "coherence", "grounding"}

\* C7: a failing check does not keep the other checks from running nor the run
\* from reaching aggregation: a run that has ended has attempted all three
\* checks and written its report.
C7_ChecksIndependent ==
    e_pc \in {"raised", "saved"} =>
        /\ DOMAIN e_results \cup ({e_failed} \ {"none"}) = Checks
        /\ e_report.exists

\* the numeric scores of the report written, in the order coverage, coherence,
\* grounding
ReportScores ==
    e_report.coverage.score \o e_report.coherence.score \o e_report.grounding.score

Abs(x) == IF x < 0 THEN 0 - x ELSE x

\* C8, as stated: the overall_score written is the mean of the scores that are
\* numbers.
C8_OverallIsExactMean ==
    e_report.exists =>
        e_report.overall_score * Len(ReportScores) = SumSeq(ReportScores)

\* C8, as the code has it: the overall_score written is the mean of exactly the
\* scores that are numbers, rounded to two decimal places (a mean half way
\* between two hundredths is written as either): a skipped grounding is left
\* out of the sum and of the count, and a scored one is in both.
C8_OverallIsRoundedMean ==
    e_report.exists =>
        /\ e_report.coverage.score # <<>>
        /\ e_report.coherence.score # <<>>
        /\ Len(ReportScores) = (IF e_report.grounding = GroundingSkipped THEN 2 ELSE 3)
        /\ 2 * Abs(e_report.overall_score * Len(ReportScores) - SumSeq(ReportScores))
              <= Len(ReportScores)

C8_Witness ==
    /\ e_report.exists
    /\ e_report.grounding = GroundingSkipped
    /\ e_report.coverage.score = <<50>>
    /\ e_report.coherence.score = <<60>>
    /\ e_report.overall_score = 55

SeqRange(seq) == {seq[i] : i \in 1..Len(seq)}

\* a required header occurs in the summary, in either casing
Occurs(section, summary) ==
    \E j \in 1..Len(summary) : summary[j] \in {section, Upper(section)}

CoverageDone == "coverage" \in DOMAIN e_results

\* C12, as stated: the coverage score is found_count / required_count.
C12_ScoreIsExactRatio ==
    CoverageDone =>
        e_results["coverage"].score[1] * Len(REQUIRED_SECTIONS)
            = 100 * Len(e_results["coverage"].found_sections)

\* C12, as the code has it: found_sections and missing_sections partition the
\* six required headers, a header is found exactly when it occurs in the
\* summary in any casing, and the score is found_count / required_count
\* rounded to two decimal places: exactly 1.0 for all six, in any casing and
\* order, and exactly 0.5 for three.
C12_CoverageScore ==
    CoverageDone =>
        LET c == e_results["coverage"]
            nFound == Len(c.found_sections)
        IN  /\ SeqRange(c.found_sections) \cup SeqRange(c.missing_sections)
                  = SeqRange(REQUIRED_SECTIONS)
            /\ SeqRange(c.found_sections) \cap SeqRange(c.missing_sections) = {}
            /\ nFound + Len(c.missing_sections) = Len(REQUIRED_SECTIONS)
            /\ \A i \in SectionIdx :
                  REQUIRED_SECTIONS[i] \in SeqRange(c.found_sections)
                      <=> Occurs(REQUIRED_SECTIONS[i], e_summary)
            /\ 2 * Abs(c.score[1] * Len(REQUIRED_SECTIONS) - 100 * nFound)
                  <= Len(REQUIRED_SECTIONS)
            /\ (nFound = 6 => c.score = <<100>>)
            /\ (nFound = 3 => c.score = <<50>>)

C12_Witness ==
    /\ CoverageDone
    /\ Len(e_summary) = 7
    /\ e_summary[1] = "text"
    /\ e_summary[2] = "KEY TAKEAWAYS"
    /\ e_results["coverage"].score = <<100>>
    /\ e_results["coverage"].missing_sections = <<>>

\* ----------------------------------------------- vector store properties
\* C9: retrieve on a collection built from no chunks returns the empty
\* sequence and never ends in an error, and build issues no embedding call for
\* it.
C9_EmptyIndexRetrieve ==
    /\ (collection = <<>> /\ q_answer.kind # "none")
          => q_answer = [kind |-> "returned", docs |-> <<>>]
    /\ (collection = <<>> /\ q_pc \in {"built", "done"})
          => /\ Len(embed_calls) = q_asked
             /\ \A i \in 1..Len(embed_calls) : embed_calls[i] \in {<<q>> : q \in Questions}

\* the number of chunks the papers of pt are cut into: per paper, one chunk
\* per window start below the length of its text
RECURSIVE ChunkTotal(_, _)
ChunkTotal(pt, names) ==
    IF names = {} THEN 0
    ELSE LET n == CHOOSE x \in names : TRUE
         IN  CeilDiv(Len(pt[n]), CHUNK_SIZE - CHUNK_OVERLAP) + ChunkTotal(pt, names \ {n})

BuildDone == q_pc \in {"built", "done"} \/ q_answer.kind # "none"

\* C13: a build over at least one chunk issues exactly one embeddings request,
\* whose input is every chunk of every paper, and stores exactly one record per
\* chunk, each under its own id; every later request embeds one question; and
\* once the build is done no step, retrieve included, changes the collection.
C13_OneBatchReadOnlyIndex ==
    /\ [](BuildDone =>
             LET total == ChunkTotal(q_papers, DOMAIN q_papers)
                 builds == IF total > 0 THEN 1 ELSE 0
             IN  /\ Len(collection) = total
                 /\ Len(embed_calls) = builds + q_asked
                 /\ total > 0 =>
                       /\ Len(embed_calls[1]) = total
                       /\ \A i \in 1..total :
                             /\ embed_calls[1][i] = collection[i].document
                             /\ collection[i].embedding = Embedding(collection[i].document)
                 /\ \A i, j \in 1..total : i # j => collection[i].id # collection[j].id
                 /\ \A i \in (builds + 1)..Len(embed_calls) :
                       embed_calls[i] \in {<<q>> : q \in Questions})
    /\ [][BuildDone => collection' = collection]_vars

C13_Witness ==
    /\ q_asked = MaxQuestions
    /\ q_answer.kind = "returned"
    /\ Len(collection) = 3
    /\ Len(embed_calls) = 1 + MaxQuestions
    /\ Len(embed_calls[1]) = 3
    /\ \E i \in 1..3 : collection[i].metadata.chunk_index = 1

====
